---- MODULE Spec2Model ----
(***************************************************************************)
(* A model of src/app.py, the PDF footer remover.                          *)
(*                                                                         *)
(* The file system holds the temporary files the script creates.  A path   *)
(* is a triple: <<"tmp", "", n>> is the n-th file made by                   *)
(* tempfile.NamedTemporaryFile, <<"preview", name, k>> is                  *)
(* tempdir/preview_{name}_{k}.png.  A file is [kind, pages]: kind "pdf"    *)
(* is a parseable document, "garbage" bytes that do not parse, "empty" a   *)
(* file nothing was written to, "png" a rendered page.                     *)
(*                                                                         *)
(* A page is [width, height, items, fills, corrupt]: items are the points  *)
(* <<x, y>> that carry content (y grows downwards, the bottom edge is      *)
(* y = height), fills the rectangles painted by applied redactions, and    *)
(* corrupt says that applying a redaction to the page raises.              *)
(***************************************************************************)
EXTENDS Integers, Sequences, FiniteSets, TLC

VARIABLES
    uploaded_files,   \* the file_uploader's value in the run of the last click
    footer_height,    \* the number_input's value in that run
    processed_files,  \* st.session_state.processed_files: name -> output path
    preview_images,   \* st.session_state.preview_images: name -> list of paths
    fs,               \* the temporary directory: path -> file
    pc,               \* where the script is
    idx,              \* the index in uploaded_files of the next document
    run_log,          \* per document of the current run: its name, paths, outcome
    error             \* the exception the current run ended with, or "none"

vars == <<uploaded_files, footer_height, processed_files, preview_images,
          fs, pc, idx, run_log, error>>

\* ------------------------------------------------------------------ bounds

\* Pages per document explored for the redaction function.
MaxPages == 2
\* Files per batch.
MaxBatch == 2
\* Temporary files made by NamedTemporaryFile in one session.
MaxTmpFiles == 6

\* ------------------------------------------------------- program constants

MinFooterHeight == 10
MaxFooterHeight == 200
DefaultFooterHeight == 60
MaxPreviewPages == 3

\* The footer heights tried, of MinFooterHeight..MaxFooterHeight.
FooterHeights == {MinFooterHeight, DefaultFooterHeight, MaxFooterHeight}

\* ------------------------------------------------------------------ helpers

Min(a, b) == IF a <= b THEN a ELSE b

Last(s) == s[Len(s)]

Range(f) == {f[x] : x \in DOMAIN f}

EmptyMap == [x \in {} |-> <<>>]

Put(m, k, v) == [x \in DOMAIN m \cup {k} |-> IF x = k THEN v ELSE m[x]]

\* ---------------------------------------------------------------- documents

Page(w, h, items, bad) ==
    [width |-> w, height |-> h, items |-> items, fills |-> <<>>, corrupt |-> bad]

Pdf(pages) == [kind |-> "pdf", pages |-> pages]

Garbage == [kind |-> "garbage", pages |-> <<>>]

EmptyFile == [kind |-> "empty", pages |-> <<>>]

\* Page sizes with the points that may carry content: US Letter landscape, a
\* page shorter than MaxFooterHeight, and a page exactly MaxFooterHeight high.
PageKinds ==
    { [w |-> 792, h |-> 612, pts |-> {<<100, 500>>, <<0, 552>>, <<792, 580>>}],
      [w |-> 100, h |-> 150, pts |-> {<<50, 0>>, <<0, 90>>, <<100, 150>>}],
      [w |-> 300, h |-> 200, pts |-> {<<0, 0>>, <<150, 139>>, <<300, 200>>}] }

PageChoices ==
    { Page(k.w, k.h, s, FALSE) : <<k, s>> \in
          UNION { {<<kk, ss>> : ss \in SUBSET kk.pts} : kk \in PageKinds } }
    \cup { Page(k.w, k.h, k.pts, TRUE) : k \in PageKinds }

SeqsUpTo(S, n) == UNION { [1..m -> S] : m \in 1..n }

\* The files redact_footer_fixed_position is tried on.
InputFiles == { Pdf(p) : p \in SeqsUpTo(PageChoices, MaxPages) } \cup {Garbage}

\* ------------------------------------------------------------ the redaction

\* The band measured from y = 0, as in PDF's own bottom-up coordinates.
FooterRectFromTop(page, h) ==
    [x0 |-> 0, y0 |-> 0, x1 |-> page.width, y1 |-> h]

\* The band's top taken from the page's width.
FooterRectSwapped(page, h) ==
    [x0 |-> 0, y0 |-> page.width - h, x1 |-> page.width, y1 |-> page.height]

\* fitz.Rect(0, height - footer_height, width, height)
FooterRect(page, h) ==
    [x0 |-> 0, y0 |-> page.height - h, x1 |-> page.width, y1 |-> page.height]

Inside(pt, rect) ==
    /\ rect.x0 <= pt[1] /\ pt[1] <= rect.x1
    /\ rect.y0 <= pt[2] /\ pt[2] <= rect.y1

\* A redaction that crops the band off the page instead of painting over it.
RedactPageCrop(page, rect) ==
    [page EXCEPT !.items = {pt \in @ : ~Inside(pt, rect)},
                 !.height = IF rect.y0 > 0 THEN rect.y0 ELSE 0]

\* page.add_redact_annot(rect, fill=(1, 1, 1)); page.apply_redactions()
RedactPage(page, rect) ==
    [page EXCEPT !.items = {pt \in @ : ~Inside(pt, rect)},
                 !.fills = Append(@, rect)]

\* for page in doc: ...  The first page that cannot be redacted raises.
RECURSIVE RedactLoop(_, _, _)
RedactLoop(pages, i, h) ==
    IF i > Len(pages) THEN [pages |-> pages, error |-> "none"]
    ELSE IF pages[i].corrupt THEN [pages |-> pages, error |-> "RedactionError"]
    ELSE RedactLoop([pages EXCEPT ![i] = RedactPage(@, FooterRect(@, h))], i + 1, h)

\* doc.save(output_path, deflate=True, garbage=4, clean=True)
Save(f, path, pages) == Put(f, path, Pdf(pages))

\* redact_footer_fixed_position(input_path, output_path, footer_height) on the
\* file system f: the file system after it and the exception it raised.
redact_footer_fixed_position(f, input_path, output_path, h) ==
    IF f[input_path].kind # "pdf"
    THEN [fs |-> f, error |-> "DocumentOpenError"]
    ELSE LET r == RedactLoop(f[input_path].pages, 1, h)
         IN  IF r.error # "none"
             THEN [fs |-> f, error |-> r.error]
             ELSE [fs |-> Save(f, output_path, r.pages), error |-> "none"]

\* What a page shows: its size and the content left on it (the fill is white
\* on white).
Visible(page) == [width |-> page.width, height |-> page.height, items |-> page.items]

\* --------------------------------------------- the function on its own

InputPath == <<"tmp", "", 0>>
FirstOutput == <<"tmp", "", 1>>
SecondOutput == <<"tmp", "", 2>>

\* A file to redact and a footer height; nothing of the session is used.
InitRedact ==
    /\ \E file \in InputFiles : fs = (InputPath :> file)
    /\ footer_height \in FooterHeights
    /\ uploaded_files = <<>>
    /\ processed_files = EmptyMap
    /\ preview_images = EmptyMap
    /\ pc = "call"
    /\ idx = 0
    /\ run_log = <<>>
    /\ error = "none"

\* redact_footer_fixed_position(input, output1, footer_height)
FirstCall ==
    /\ pc = "call"
    /\ LET r == redact_footer_fixed_position(fs, InputPath, FirstOutput, footer_height)
       IN  /\ fs' = r.fs
           /\ error' = r.error
           /\ pc' = IF r.error = "none" THEN "once" ELSE "failed"
    /\ UNCHANGED <<uploaded_files, footer_height, processed_files, preview_images,
                   idx, run_log>>

\* redact_footer_fixed_position(output1, output2, footer_height): the same
\* footer height applied to the first call's output.
SecondCall ==
    /\ pc = "once"
    /\ LET r == redact_footer_fixed_position(fs, FirstOutput, SecondOutput, footer_height)
       IN  /\ fs' = r.fs
           /\ error' = r.error
           /\ pc' = IF r.error = "none" THEN "twice" ELSE "failed"
    /\ UNCHANGED <<uploaded_files, footer_height, processed_files, preview_images,
                   idx, run_log>>

NextRedact == FirstCall \/ SecondCall

SpecRedact == InitRedact /\ [][NextRedact]_vars

\* ------------------------------------------------------------- the session

UploadNames == {"a.pdf", "b.pdf"}

LetterPage == Page(792, 612, {<<100, 500>>, <<0, 552>>, <<792, 580>>}, FALSE)
SmallPage == Page(100, 150, {<<50, 0>>, <<0, 90>>, <<100, 150>>}, FALSE)
CorruptPage == Page(300, 200, {<<0, 0>>, <<150, 139>>, <<300, 200>>}, TRUE)

\* What a user uploads: a one-page document, one with more pages than are
\* previewed, one with a page that cannot be redacted, and a file that is no PDF.
UploadData ==
    { Pdf(<<LetterPage>>),
      Pdf(<<SmallPage, LetterPage, SmallPage, LetterPage>>),
      Pdf(<<LetterPage, CorruptPage>>),
      Garbage }

\* An UploadedFile: its .name and what .read() returns.
Uploads == [name : UploadNames, data : UploadData]

TmpCount(f) == Cardinality({p \in DOMAIN f : p[1] = "tmp"})

\* tempfile.NamedTemporaryFile(delete=False, suffix=".pdf").name: a path no
\* file has yet. Nothing is ever deleted, so the count of them is fresh.
FreshTmp(f) == <<"tmp", "", TmpCount(f)>>

\* Path(tempfile.gettempdir()) / f"preview_{original_name}_{page_num}.png"
PreviewPath(name, page_num) == <<"preview", name, page_num>>

\* page.get_pixmap(dpi=150)
Png(page) == [kind |-> "png", pages |-> <<Visible(page)>>]

\* No cap on the pages previewed.
NumPreviewPagesAll(pages) == Len(pages)

\* num_pages = min(3, len(doc))
NumPreviewPages(pages) == Min(MaxPreviewPages, Len(pages))

\* pix.save(str(img_path)) for the page numbers below n
WritePreviews(f, name, pages, n) ==
    [p \in DOMAIN f \cup {PreviewPath(name, k) : k \in 0..(n - 1)} |->
        IF p[1] = "preview" /\ p[2] = name /\ p[3] < n
        THEN Png(pages[p[3] + 1]) ELSE f[p]]

\* The paths of the pages rendered before the failure stay in the list.
PreviewListPartial(name, num_pages, fail_at) ==
    [i \in 1..Min(num_pages, fail_at) |-> PreviewPath(name, i - 1)]

\* preview_paths after the try block: every page's path, or [] when opening
\* or rendering raised (at page fail_at < num_pages).
PreviewList(name, num_pages, fail_at) ==
    IF fail_at < num_pages THEN <<>>
    ELSE [i \in 1..num_pages |-> PreviewPath(name, i - 1)]

Entry(name, input_path, output_path, outcome) ==
    [name |-> name, input_path |-> input_path, output_path |-> output_path,
     outcome |-> outcome]

Init ==
    /\ uploaded_files = <<>>
    /\ footer_height = DefaultFooterHeight
    /\ processed_files = EmptyMap
    /\ preview_images = EmptyMap
    /\ fs = EmptyMap
    /\ pc = "idle"
    /\ idx = 0
    /\ run_log = <<>>
    /\ error = "none"

\* A run of the script with "Remove Footer from All PDFs" clicked, up to the
\* loop: the previous results are cleared.
ProcessStart ==
    /\ pc = "idle"
    /\ \E n \in 1..MaxBatch :
          /\ TmpCount(fs) + 2 * n <= MaxTmpFiles
          /\ \E files \in [1..n -> Uploads] : uploaded_files' = files
    /\ \E h \in FooterHeights : footer_height' = h
    /\ processed_files' = EmptyMap
    /\ preview_images' = EmptyMap
    /\ pc' = "processing"
    /\ idx' = 1
    /\ run_log' = <<>>
    /\ error' = "none"
    /\ UNCHANGED fs

\* The results are assigned as new one-entry dicts instead of updated.
RecordReplacing(f, name, input_path, output_path, fail_at) ==
    LET pages == f[output_path].pages
        num_pages == NumPreviewPages(pages)
    IN  /\ processed_files' = (name :> output_path)
        /\ preview_images' = (name :> PreviewList(name, num_pages, fail_at))
        /\ fs' = WritePreviews(f, name, pages, Min(num_pages, fail_at))
        /\ run_log' = Append(run_log, Entry(name, input_path, output_path,
                               IF fail_at < num_pages THEN "preview_failed" ELSE "ok"))
        /\ idx' = IF idx = Len(uploaded_files) THEN 0 ELSE idx + 1
        /\ pc' = IF idx = Len(uploaded_files) THEN "idle" ELSE "processing"
        /\ UNCHANGED <<uploaded_files, footer_height, error>>

\* The loop body from "Store in session state" on, for a document whose
\* redaction did not raise; rendering raises at page fail_at, if below the
\* number of pages previewed.
Record(f, name, input_path, output_path, fail_at) ==
    LET pages == f[output_path].pages
        num_pages == IF f[output_path].kind = "pdf" THEN NumPreviewPages(pages) ELSE 0
        opened == f[output_path].kind = "pdf"
        failed == ~opened \/ fail_at < num_pages
    IN  /\ processed_files' = Put(processed_files, name, output_path)
        /\ preview_images' = Put(preview_images, name,
                                 IF opened THEN PreviewList(name, num_pages, fail_at)
                                 ELSE <<>>)
        /\ fs' = WritePreviews(f, name, pages, Min(num_pages, fail_at))
        /\ run_log' = Append(run_log, Entry(name, input_path, output_path,
                                            IF failed THEN "preview_failed" ELSE "ok"))
        /\ idx' = IF idx = Len(uploaded_files) THEN 0 ELSE idx + 1
        /\ pc' = IF idx = Len(uploaded_files) THEN "idle" ELSE "processing"
        /\ UNCHANGED <<uploaded_files, footer_height, error>>

\* The exception is caught and the document recorded all the same.
AbortSwallowed(r, name, input_path, output_path) ==
    Record(r.fs, name, input_path, output_path, 0)

\* redact_footer_fixed_position raised: nothing catches it, the run ends.
Abort(r, name, input_path, output_path) ==
    /\ fs' = r.fs
    /\ error' = r.error
    /\ run_log' = Append(run_log, Entry(name, input_path, output_path, "raised"))
    /\ pc' = "idle"
    /\ idx' = 0
    /\ UNCHANGED <<uploaded_files, footer_height, processed_files, preview_images>>

\* One pass of "for uploaded_file in uploaded_files".
ProcessDocument ==
    /\ pc = "processing"
    /\ LET uploaded_file == uploaded_files[idx]
           original_name == uploaded_file.name
           temp_input_path == FreshTmp(fs)
           fs1 == Put(fs, temp_input_path, uploaded_file.data)
           output_path == FreshTmp(fs1)
           fs2 == Put(fs1, output_path, EmptyFile)
           r == redact_footer_fixed_position(fs2, temp_input_path, output_path,
                                             footer_height)
       IN  IF r.error # "none"
           THEN Abort(r, original_name, temp_input_path, output_path)
           ELSE \E fail_at \in 0..Len(r.fs[output_path].pages) :
                   /\ fail_at <= NumPreviewPages(r.fs[output_path].pages)
                   /\ Record(r.fs, original_name, temp_input_path, output_path, fail_at)

\* A run of the script with no button clicked (a widget changed, the page was
\* reloaded): the session state exists and is kept; the results are shown.
Rerun ==
    /\ pc = "idle"
    /\ run_log' = <<>>
    /\ error' = "none"
    /\ UNCHANGED <<uploaded_files, footer_height, processed_files, preview_images,
                   fs, pc, idx>>

\* A run with "Clear Processed Files" clicked.
Clear ==
    /\ pc = "idle"
    /\ processed_files' = EmptyMap
    /\ preview_images' = EmptyMap
    /\ run_log' = <<>>
    /\ error' = "none"
    /\ UNCHANGED <<uploaded_files, footer_height, fs, pc, idx>>

Next == ProcessStart \/ ProcessDocument \/ Rerun \/ Clear

Spec == Init /\ [][Next]_vars

\* ============================================================ properties

InPages == fs[InputPath].pages
OutPages == fs[FirstOutput].pages
Redacted == pc \in {"once", "twice"}

\* C1: for every page with 0 < F <= H, the rectangle redacted is exactly
\* (0, H - F, W, H), it is applied once, and after the call no content of the
\* page lies in the band [H - F, H].
C1_FooterBandRedacted ==
    Redacted =>
        /\ Len(OutPages) = Len(InPages)
        /\ \A i \in 1..Len(InPages) :
              LET W == InPages[i].width
                  H == InPages[i].height
                  F == footer_height
              IN  (0 < F /\ F <= H) =>
                     /\ OutPages[i].fills =
                           <<[x0 |-> 0, y0 |-> H - F, x1 |-> W, y1 |-> H]>>
                     /\ \A pt \in OutPages[i].items : ~(H - F <= pt[2] /\ pt[2] <= H)

\* A page no higher than needed had content inside the band, and was redacted.
C1_Witness ==
    /\ pc = "once"
    /\ \E i \in 1..Len(InPages) :
          /\ footer_height <= InPages[i].height
          /\ \E pt \in InPages[i].items : InPages[i].height - footer_height <= pt[2]

\* C2: on every page and for every footer height the rectangle redacted has
\* 0 <= y0 <= y1 = H, with y0 clamped to 0 when H <= F.
C2_RectClamped ==
    Redacted =>
        \A i \in 1..Len(OutPages) :
            LET rect == Last(OutPages[i].fills)
                H == InPages[i].height
            IN  /\ 0 <= rect.y0
                /\ rect.y0 <= rect.y1
                /\ rect.y1 = H
                /\ (H <= footer_height => rect.y0 = 0)

\* What a document processed alone gives: the output file of
\* redact_footer_fixed_position on a file system holding nothing else.
Alone(data, h) ==
    redact_footer_fixed_position(InputPath :> data, InputPath, FirstOutput, h)

\* C3: after a batch in which nothing raised, the output recorded for each
\* document of the batch is the output it has when processed alone, and its
\* previews, when they were rendered, are those of that output.
C3_BatchIndependent ==
    (pc = "idle" /\ run_log # <<>> /\ error = "none") =>
        \A i \in 1..Len(uploaded_files) :
            LET B == uploaded_files[i]
                alone == Alone(B.data, footer_height).fs[FirstOutput]
            IN  /\ B.name \in DOMAIN processed_files
                /\ fs[processed_files[B.name]] = alone
                /\ run_log[i].outcome = "ok" =>
                      /\ Len(preview_images[B.name]) =
                            Min(MaxPreviewPages, Len(alone.pages))
                      /\ \A k \in 1..Len(preview_images[B.name]) :
                            fs[preview_images[B.name][k]] = Png(alone.pages[k])

\* An uploaded file that cannot be opened or has a page that cannot be redacted.
Unredactable(data) ==
    data.kind # "pdf" \/ \E i \in 1..Len(data.pages) : data.pages[i].corrupt

\* A page whose footer band was painted over and holds no content.
FooterGone(page, h) ==
    /\ Len(page.fills) >= 1
    /\ \A pt \in page.items : pt[2] < page.height - h

\* C4: a document that cannot be opened or redacted ends the run with the
\* exception raised; its output path holds no saved document and is not in
\* processed_files; and every path in processed_files holds a document all of
\* whose pages are redacted.
C4_FailureRaisedNoOutput ==
    /\ \A i \in 1..Len(run_log) :
          /\ Unredactable(uploaded_files[i].data) <=> run_log[i].outcome = "raised"
          /\ run_log[i].outcome = "raised" =>
                /\ i = Len(run_log)
                /\ error # "none"
                /\ pc = "idle"
                /\ fs[run_log[i].output_path] = EmptyFile
                /\ run_log[i].output_path \notin Range(processed_files)
    /\ \A n \in DOMAIN processed_files :
          /\ fs[processed_files[n]].kind = "pdf"
          /\ \A k \in 1..Len(fs[processed_files[n]].pages) :
                FooterGone(fs[processed_files[n]].pages[k], footer_height)

\* The second document of a batch raised after the first was recorded.
C4_Witness ==
    /\ error # "none"
    /\ Len(run_log) = 2
    /\ run_log[2].outcome = "raised"
    /\ run_log[1].name \in DOMAIN processed_files

\* C5: a document whose previews failed keeps its output path in
\* processed_files (until a later document of the same name replaces it), has
\* an empty preview list, raises nothing, and the run goes on to the remaining
\* documents.
C5_PreviewFailureKeepsResult ==
    /\ \A i \in 1..Len(run_log) :
          (/\ run_log[i].outcome = "preview_failed"
           /\ \A j \in (i + 1)..Len(run_log) : run_log[j].name # run_log[i].name) =>
              /\ run_log[i].name \in DOMAIN processed_files
              /\ processed_files[run_log[i].name] = run_log[i].output_path
              /\ fs[run_log[i].output_path].kind = "pdf"
              /\ run_log[i].name \in DOMAIN preview_images
              /\ preview_images[run_log[i].name] = <<>>
              /\ (i = Len(run_log) => error = "none")
              /\ (pc = "idle" /\ error = "none" => Len(run_log) = Len(uploaded_files))
              /\ (pc = "processing" => idx = Len(run_log) + 1)

\* Previews failed for the first document after a page was rendered, and the
\* second document was processed.
C5_Witness ==
    /\ Len(run_log) = 2
    /\ run_log[1].outcome = "preview_failed"
    /\ run_log[2].outcome = "ok"
    /\ run_log[1].name # run_log[2].name
    /\ PreviewPath(run_log[1].name, 0) \in DOMAIN fs

KeysKept ==
    /\ DOMAIN processed_files \subseteq DOMAIN processed_files'
    /\ DOMAIN preview_images \subseteq DOMAIN preview_images'

\* C6 as stated: no entry of the cache disappears in a step other than the
\* explicit reset.
C6_OnlyClearRemoves == [][KeysKept \/ Clear]_vars

\* C6 amended: no entry of the cache disappears in a step other than the
\* explicit reset and the start of a process action; any other step leaves the
\* existing entries as they are, but for the entry of the document being
\* processed.
C6_ClearOrProcessRemoves ==
    [][\/ /\ KeysKept
          /\ \A n \in DOMAIN processed_files :
                processed_files'[n] # processed_files[n] =>
                    pc = "processing" /\ n = uploaded_files[idx].name
          /\ \A n \in DOMAIN preview_images :
                preview_images'[n] # preview_images[n] =>
                    pc = "processing" /\ n = uploaded_files[idx].name
       \/ Clear
       \/ ProcessStart]_vars

\* Results are in the cache in a run after the one that made them.
C6_Witness ==
    /\ pc = "idle"
    /\ run_log = <<>>
    /\ Cardinality(DOMAIN processed_files) = 2

\* C7: once the script is idle, every temporary file is one the session cache
\* refers to.
C7_TempFilesCleanedUp ==
    pc = "idle" =>
        \A p \in DOMAIN fs :
            \/ p \in Range(processed_files)
            \/ \E n \in DOMAIN preview_images : p \in Range(preview_images[n])

\* C8: the call keeps the number and order of the pages, and on every page the
\* content strictly above the band (y < H - F) is the same in the output as in
\* the input.
C8_AboveBandUnchanged ==
    Redacted =>
        /\ Len(OutPages) = Len(InPages)
        /\ \A i \in 1..Len(InPages) :
              LET H == InPages[i].height
                  F == footer_height
              IN  /\ OutPages[i].width = InPages[i].width
                  /\ OutPages[i].height = H
                  /\ {pt \in OutPages[i].items : pt[2] < H - F} =
                        {pt \in InPages[i].items : pt[2] < H - F}
                  /\ OutPages[i].items \subseteq InPages[i].items

\* A document of two different pages, one with content above and in the band.
C8_Witness ==
    /\ pc = "once"
    /\ Len(InPages) = 2
    /\ InPages[1].height # InPages[2].height
    /\ \E pt \in InPages[1].items : pt[2] < InPages[1].height - footer_height
    /\ \E pt \in InPages[1].items : pt[2] >= InPages[1].height - footer_height

\* C9: the second application to the first one's output does not fail, and
\* its output shows what the first one's output shows.
C9_SecondPassSameVisible ==
    /\ pc = "twice" =>
          /\ error = "none"
          /\ Len(fs[SecondOutput].pages) = Len(OutPages)
          /\ \A i \in 1..Len(OutPages) :
                Visible(fs[SecondOutput].pages[i]) = Visible(OutPages[i])
    /\ pc = "failed" => FirstOutput \notin DOMAIN fs

\* The second output is another file than the first (the fill is there
\* twice) of a document that had content in the band.
C9_Witness ==
    /\ pc = "twice"
    /\ fs[SecondOutput] # fs[FirstOutput]
    /\ \E i \in 1..Len(InPages) : InPages[i].items # OutPages[i].items

\* C10: when the results are rendered, processed_files and preview_images have
\* the same keys, and every preview list has at most 3 entries and at most as
\* many as the processed document has pages.
C10_CacheKeysAgree ==
    pc = "idle" =>
        /\ DOMAIN processed_files = DOMAIN preview_images
        /\ \A n \in DOMAIN preview_images :
              /\ Len(preview_images[n]) <= 3
              /\ Len(preview_images[n]) <= Len(fs[processed_files[n]].pages)

\* A run that a failing document ended, after a document of more than three
\* pages got its three previews.
C10_Witness ==
    /\ pc = "idle"
    /\ error # "none"
    /\ \E n \in DOMAIN preview_images :
          /\ Len(preview_images[n]) = 3
          /\ Len(fs[processed_files[n]].pages) > 3

====
